---- MODULE Spec2Model ----
(***************************************************************************)
(* Step-and-repeat optimizer of imshvc/optimize-step-and-repeat.           *)
(*                                                                         *)
(* Two specifications share this module:                                   *)
(*   SpecOpt  the function optimizeStepAndRepeat applied (once or again)   *)
(*            to a caller-owned request object, for both source variants   *)
(*            of the function (src/js/app.js and src/unnamed/part_000);    *)
(*   Spec     the commit handler commitChanges of src/js/app.js acting on  *)
(*            the globals `state` and `results` and on the preview panel.  *)
(*                                                                         *)
(* Lengths are integers counted in tenths of a millimetre, so the default  *)
(* margin of 12.7 mm is the integer 127; NaN and fractions of a tenth are  *)
(* not represented.  JavaScript objects are modelled                       *)
(* with their key order, because the sanitising loop `for (k in props)`    *)
(* visits the keys in insertion order.                                     *)
(***************************************************************************)
EXTENDS Integers, Sequences, FiniteSets, TLC

\* ------------------------------------------------------------------ bounds
Grid      == 50  \* the lengths offered are multiples of Grid (5 mm), and
                 \* document sides also twice the default margin plus one
MaxNegDoc == 3   \* most negative document side offered is -MaxNegDoc * Grid
MaxNeg    == 1   \* most negative margin or item side is -MaxNeg * Grid
MaxDoc    == 3   \* document sides up to MaxDoc * Grid
MaxOver   == 1   \* and 2 * 127 + (0..MaxOver) * Grid
MaxMargin == 1   \* explicit margins up to MaxMargin * Grid
MaxItem   == 2   \* item sides up to MaxItem * Grid
MaxCalls  == 2   \* calls made on one request object
CNeg      == 3   \* commits: a document side may be typed as -CNeg * Grid
CDocMin   == 2   \* commits: or as one of (CDocMin..CDoc) * Grid
CDoc      == 3
CMargin   == 1   \* commits: the margin is 0 or CMargin * Grid
CItemMin  == 1   \* commits: item sides (CItemMin..CItem) * Grid, and the
CItem     == 2   \*          item width may also be 0

\* --------------------------------------------------------- program constant
DefaultMargin == 127

\* ------------------------------------------------------------------ values
\* A property value: a number, null, or no such property (undefined).
Num(i)     == [k |-> "num", n |-> i]
NullCell   == [k |-> "null", n |-> 0]
AbsentCell == [k |-> "absent", n |-> 0]

\* c is null or undefined
Missing(c) == c.k \in {"null", "absent"}

RequestKeys == <<"documentWidth", "documentHeight", "documentMargin",
                 "itemWidth", "itemHeight">>
AllKeys == {"documentWidth", "documentHeight", "documentMargin", "itemWidth",
            "itemHeight", "documentWidthReal", "documentHeightReal",
            "maxRows", "maxColumns", "reference"}

\* The empty object literal {}.
EmptyObject == [keys |-> <<>>, cell |-> [k \in AllKeys |-> AbsentCell]]

\* obj[k] = c : an existing key keeps its place, a new key goes last.
SetKey(obj, k, c) ==
  [keys |-> IF obj.cell[k].k # "absent" THEN obj.keys ELSE Append(obj.keys, k),
   cell |-> [obj.cell EXCEPT ![k] = c]]

Get(obj, k) == obj.cell[k]

\* a ?? b
Coalesce(c, d) == IF Missing(c) THEN d ELSE c

Abs(i) == IF i < 0 THEN -i ELSE i

\* An object literal {documentWidth: .., ..., itemHeight: ..}; a cell that is
\* AbsentCell stands for a property the caller left out.
RECURSIVE LiteralFrom(_, _, _)
LiteralFrom(r, i, obj) ==
  IF i > Len(RequestKeys) THEN obj
  ELSE LiteralFrom(r, i + 1,
         IF r[RequestKeys[i]].k = "absent" THEN obj
         ELSE SetKey(obj, RequestKeys[i], r[RequestKeys[i]]))

Literal(r) == LiteralFrom(r, 1, EmptyObject)

\* ------------------------------------------------- optimizeStepAndRepeat
\* mutant: a missing property is taken as 0
ApplyDefaultsZero(p0) ==
  LET p1 == SetKey(p0, "documentWidth", Coalesce(Get(p0, "documentWidth"), Num(0)))
      p2 == SetKey(p1, "documentHeight", Coalesce(Get(p1, "documentHeight"), Num(0)))
      p3 == SetKey(p2, "documentMargin", Coalesce(Get(p2, "documentMargin"), Num(DefaultMargin)))
      p4 == SetKey(p3, "itemWidth", Coalesce(Get(p3, "itemWidth"), Num(0)))
      p5 == SetKey(p4, "itemHeight", Coalesce(Get(p4, "itemHeight"), Num(0)))
  IN  p5

\* mutant: documentMargin || 12.7, which also replaces a margin of 0
ApplyDefaultsOr(p0) ==
  LET m  == Get(p0, "documentMargin")
      p1 == SetKey(p0, "documentWidth", Coalesce(Get(p0, "documentWidth"), NullCell))
      p2 == SetKey(p1, "documentHeight", Coalesce(Get(p1, "documentHeight"), NullCell))
      p3 == SetKey(p2, "documentMargin",
                   IF Missing(m) \/ m.n = 0 THEN Num(DefaultMargin) ELSE m)
      p4 == SetKey(p3, "itemWidth", Coalesce(Get(p3, "itemWidth"), NullCell))
      p5 == SetKey(p4, "itemHeight", Coalesce(Get(p4, "itemHeight"), NullCell))
  IN  p5

\* lines 54-58: the defaults
ApplyDefaults(p0) ==
  LET p1 == SetKey(p0, "documentWidth", Coalesce(Get(p0, "documentWidth"), NullCell))
      p2 == SetKey(p1, "documentHeight", Coalesce(Get(p1, "documentHeight"), NullCell))
      p3 == SetKey(p2, "documentMargin", Coalesce(Get(p2, "documentMargin"), Num(DefaultMargin)))
      p4 == SetKey(p3, "itemWidth", Coalesce(Get(p3, "itemWidth"), NullCell))
      p5 == SetKey(p4, "itemHeight", Coalesce(Get(p4, "itemHeight"), NullCell))
  IN  p5

\* lines 63-64: the record of the real dimensions
KeepReal(p0) ==
  LET p1 == SetKey(p0, "documentWidthReal", Get(p0, "documentWidth"))
      p2 == SetKey(p1, "documentHeightReal", Get(p1, "documentHeight"))
  IN  p2

\* mutant: a negative margin keeps its sign
RECURSIVE SanitizeKeepsMarginSign(_, _)
SanitizeKeepsMarginSign(p, i) ==
  IF i > Len(p.keys) THEN [thrown |-> FALSE, key |-> "", props |-> p]
  ELSE LET k == p.keys[i]
           c == Get(p, k)
       IN  IF c.k = "null" THEN [thrown |-> TRUE, key |-> k, props |-> p]
           ELSE IF 0 > c.n /\ k # "documentMargin"
             THEN SanitizeKeepsMarginSign(SetKey(p, k, Num(c.n * (-1))), i + 1)
           ELSE SanitizeKeepsMarginSign(p, i + 1)

\* lines 67-77: for (let k in props): throw on the first null, negate negatives
RECURSIVE Sanitize(_, _)
Sanitize(p, i) ==
  IF i > Len(p.keys) THEN [thrown |-> FALSE, key |-> "", props |-> p]
  ELSE LET k == p.keys[i]
           c == Get(p, k)
       IN  IF c.k = "null" THEN [thrown |-> TRUE, key |-> k, props |-> p]
           ELSE IF 0 > c.n THEN Sanitize(SetKey(p, k, Num(c.n * (-1))), i + 1)
           ELSE Sanitize(p, i + 1)

\* mutant: the margin is taken off one side only
SubtractMarginOnce(p0) ==
  LET m  == Get(p0, "documentMargin").n
      p1 == SetKey(p0, "documentWidth", Num(Get(p0, "documentWidth").n - m))
      p2 == SetKey(p1, "documentHeight", Num(Get(p1, "documentHeight").n - m))
  IN  p2

\* lines 83-84: the margin is taken off both sides of both axes
SubtractMargin(p0) ==
  LET m  == Get(p0, "documentMargin").n
      p1 == SetKey(p0, "documentWidth", Num(Get(p0, "documentWidth").n - m * 2))
      p2 == SetKey(p1, "documentHeight", Num(Get(p1, "documentHeight").n - m * 2))
  IN  p2

\* line 82
MarginApplies(p) == Get(p, "documentMargin").n # 0

\* "Item out of bounds" tests of the two loops
ColumnOutOfBounds(accum, item, limit) == accum + item > limit

RowOutOfBounds(accum, item, limit, variant) ==
  IF variant = "part_000" THEN accum + item >= limit
  ELSE accum + item > limit

\* One fitting loop: for (let i = 0, accum = 0; i <= limit;) {...}.  i stays
\* 0, so the loop is left only by the break.  l is the loop's state: accum
\* and the count so far.  When the body neither breaks nor changes accum it
\* can never break later: the loop hangs.
LoopStart == [accum |-> 0, n |-> 0]
LoopStep(l, item) == [accum |-> l.accum + item, n |-> l.n + 1]

ColumnLoopEnds(l, item, limit) ==
  ~(0 <= limit) \/ ColumnOutOfBounds(l.accum, item, limit)

RECURSIVE ColumnLoop(_, _, _)
ColumnLoop(l, item, limit) ==
  IF ColumnLoopEnds(l, item, limit) \/ LoopStep(l, item).accum = l.accum
  THEN [hang |-> ~ColumnLoopEnds(l, item, limit), n |-> l.n]
  ELSE ColumnLoop(LoopStep(l, item), item, limit)

RowLoopEnds(l, item, limit, variant) ==
  ~(0 <= limit) \/ RowOutOfBounds(l.accum, item, limit, variant)

RECURSIVE RowLoop(_, _, _, _)
RowLoop(l, item, limit, variant) ==
  IF RowLoopEnds(l, item, limit, variant) \/ LoopStep(l, item).accum = l.accum
  THEN [hang |-> ~RowLoopEnds(l, item, limit, variant), n |-> l.n]
  ELSE RowLoop(LoopStep(l, item), item, limit, variant)

NoError == [kind |-> "none", key |-> ""]

\* lines 96-125: the two loops on the usable area, then the counts are
\* stored and the object is returned
Pack(p, variant) ==
  LET cols == ColumnLoop(LoopStart, Get(p, "itemWidth").n, Get(p, "documentWidth").n)
      rows == RowLoop(LoopStart, Get(p, "itemHeight").n, Get(p, "documentHeight").n,
                      variant)
  IN  IF cols.hang THEN [status |-> "hung", error |-> NoError, props |-> p]
      ELSE IF rows.hang THEN [status |-> "hung", error |-> NoError, props |-> p]
      ELSE [status |-> "returned", error |-> NoError,
            props |-> SetKey(SetKey(p, "maxRows", Num(rows.n)),
                             "maxColumns", Num(cols.n))]

\* mutant: only the width is tested for "Too much margin"
CheckMarginWidthOnly(p, variant) ==
  IF 0 >= Get(p, "documentWidth").n
    THEN [status |-> "threw", error |-> [kind |-> "margin", key |-> "documentWidth"],
          props |-> p]
  ELSE Pack(p, variant)

\* lines 86-94: "Too much margin", on p with the margin already taken off
CheckMargin(p, variant) ==
  IF 0 >= Get(p, "documentWidth").n
    THEN [status |-> "threw", error |-> [kind |-> "margin", key |-> "documentWidth"],
          props |-> p]
  ELSE IF 0 >= Get(p, "documentHeight").n
    THEN [status |-> "threw", error |-> [kind |-> "margin", key |-> "documentHeight"],
          props |-> p]
  ELSE Pack(p, variant)

\* lines 66-94, on the outcome s of the sanitising loop
AfterSanitize(s, variant) ==
  IF s.thrown
    THEN [status |-> "threw", error |-> [kind |-> "null", key |-> s.key],
          props |-> s.props]
  ELSE IF MarginApplies(s.props) THEN CheckMargin(SubtractMargin(s.props), variant)
  ELSE Pack(s.props, variant)

\* The whole function.  status is "returned", "threw" or "hung"; props is the
\* argument object as the call leaves it (the function works on it in place
\* and returns that same object).
optimizeStepAndRepeat(arg, variant) ==
  AfterSanitize(Sanitize(KeepReal(ApplyDefaults(arg)), 1), variant)

\* ------------------------------------------------------------------- state
VARIABLES
  props,     \* SpecOpt: the request object owned by the caller
  calls,     \* SpecOpt: the calls made on props so far, each with the object
             \*          before it, its outcome and the object after it
  variant,   \* SpecOpt: which source file's optimizeStepAndRepeat is called
  state,     \* Spec: the global `state` (the five control values)
  results,   \* Spec: the global `results`
  preview,   \* Spec: the fieldsets inside elements.results, in order
  alerted,   \* Spec: the alert raised by the latest commit, if any
  hung       \* Spec: the page is stuck inside a fitting loop

vars == <<props, calls, variant, state, results, preview, alerted, hung>>
optVars == <<props, calls, variant>>
commitVars == <<state, results, preview, alerted, hung>>

Variants == {"js/app.js", "part_000"}

\* var state = {...}: 330, 488, 12.7, 90, 50 mm
InitialState ==
  [documentWidth |-> 3300, documentHeight |-> 4880, documentMargin |-> 127,
   itemWidth |-> 900, itemHeight |-> 500]

\* an entry of `results` that was never assigned
Undefined == [def |-> FALSE, obj |-> EmptyObject]
Defined(o) == [def |-> TRUE, obj |-> o]

\* var results = {}
InitialResults == [t \in {"square", "landscape", "portrait"} |-> Undefined]

CommitInit ==
  /\ state = InitialState
  /\ results = InitialResults
  /\ preview = <<>>
  /\ alerted = NoError
  /\ hung = FALSE

\* ----------------------------------------------------------------- SpecOpt
OnGrid(S) == {k * Grid : k \in S}

DocValues ==
  OnGrid(-MaxNegDoc..MaxDoc) \cup {2 * DefaultMargin + k * Grid : k \in 0..MaxOver}
MarginValues == OnGrid(-MaxNeg..MaxMargin)
ItemValues == OnGrid(-MaxNeg..MaxItem)

Cells(S) == {Num(v) : v \in S} \cup {NullCell, AbsentCell}

Requests ==
  [documentWidth : Cells(DocValues), documentHeight : Cells(DocValues),
   documentMargin : Cells(MarginValues),
   itemWidth : Cells(ItemValues), itemHeight : Cells(ItemValues)]

InitOpt ==
  /\ \E r \in Requests : props = Literal(r)
  /\ calls = <<>>
  /\ variant \in Variants
  /\ CommitInit

\* the caller runs optimizeStepAndRepeat(props) on its object
Call ==
  /\ Len(calls) < MaxCalls
  /\ Len(calls) > 0 => calls[Len(calls)].status # "hung"
  /\ \E r \in {optimizeStepAndRepeat(props, variant)} :
       /\ props' = r.props
       /\ calls' = Append(calls, [before |-> props, status |-> r.status,
                                  error |-> r.error, after |-> r.props])
  /\ UNCHANGED <<variant, commitVars>>

NextOpt == Call

SpecOpt == InitOpt /\ [][NextOpt]_vars

\* -------------------------------------------------------------------- Spec
\* what parseFloat may find in the five input fields at a commit
CDocValues == {-CNeg * Grid} \cup OnGrid(CDocMin..CDoc)
CMarginValues == {0, CMargin * Grid}
CItemWidthValues == {0} \cup OnGrid(CItemMin..CItem)
CItemHeightValues == OnGrid(CItemMin..CItem)

\* the object literal commitChanges passes to optimizeStepAndRepeat
Request(w, h, m, iw, ih) ==
  Literal([documentWidth |-> Num(w), documentHeight |-> Num(h),
           documentMargin |-> Num(m), itemWidth |-> Num(iw),
           itemHeight |-> Num(ih)])

ElementCell == [k |-> "element", n |-> 0]

ItemCount(o) == Get(o, "maxRows").n * Get(o, "maxColumns").n

\* generateDocumentPreview(results[id], id): one more fieldset in the panel,
\* and results[id].reference points at it.  rp is the pair (results, preview).
GenerateDocumentPreview(rp, id) ==
  [results |-> [rp.results EXCEPT ![id].obj = SetKey(@, "reference", ElementCell)],
   preview |-> Append(rp.preview,
                 [identifier |-> id,
                  rowCount |-> Get(rp.results[id].obj, "maxRows").n,
                  columnCount |-> Get(rp.results[id].obj, "maxColumns").n,
                  itemCount |-> ItemCount(rp.results[id].obj)])]

\* clearDocumentPreview()
ClearDocumentPreview(rp) == [rp EXCEPT !.preview = <<>>]

\* mutant: a tie goes to portrait
PortraitWinsOrTies(portrait, landscape) == ItemCount(portrait) >= ItemCount(landscape)

\* lines 610-618: which candidate is rendered
PortraitWins(portrait, landscape) == ItemCount(portrait) > ItemCount(landscape)

\* lines 574-583
Lowest(docWidth, docHeight) == IF docWidth > docHeight THEN docHeight ELSE docWidth
Highest(docWidth, docHeight) == IF docWidth > docHeight THEN docWidth ELSE docHeight

\* What one run of commitChanges leaves behind, from the results and the
\* preview it finds.  alerted is the error it reported, hung tells that it
\* never came back from optimizeStepAndRepeat.
Outcome(rp, err, stuck) ==
  [results |-> rp.results, preview |-> rp.preview, alerted |-> err, hung |-> stuck]

\* mutant: a failed square call leaves the old preview on the page
SquareDoneKeepsPreview(rp, r) ==
  IF r.status = "hung" THEN Outcome(rp, NoError, TRUE)
  ELSE IF r.status = "threw" THEN Outcome(rp, r.error, FALSE)
  ELSE Outcome(GenerateDocumentPreview(
                 ClearDocumentPreview([rp EXCEPT !.results.square = Defined(r.props)]),
                 "square"),
               NoError, FALSE)

\* lines 557-567, on the outcome r of the call
SquareDone(rp, r) ==
  IF r.status = "hung" THEN Outcome(rp, NoError, TRUE)
  ELSE IF r.status = "threw" THEN Outcome(ClearDocumentPreview(rp), r.error, FALSE)
  ELSE Outcome(GenerateDocumentPreview(
                 ClearDocumentPreview([rp EXCEPT !.results.square = Defined(r.props)]),
                 "square"),
               NoError, FALSE)

\* lines 548-568
CommitSquare(rp, docWidth, docHeight, m, iw, ih) ==
  SquareDone(rp, optimizeStepAndRepeat(Request(docWidth, docHeight, m, iw, ih),
                                       "js/app.js"))

\* lines 607-618, rp holding both candidates
RenderBest(rp) ==
  IF PortraitWins(rp.results.portrait.obj, rp.results.landscape.obj)
    THEN Outcome(GenerateDocumentPreview(ClearDocumentPreview(rp), "portrait"),
                 NoError, FALSE)
  ELSE Outcome(GenerateDocumentPreview(ClearDocumentPreview(rp), "landscape"),
               NoError, FALSE)

\* lines 594-618, on the outcome q of the portrait call
PortraitDone(rp, q) ==
  IF q.status = "hung" THEN Outcome(rp, NoError, TRUE)
  ELSE IF q.status = "threw" THEN Outcome(ClearDocumentPreview(rp), q.error, FALSE)
  ELSE RenderBest([rp EXCEPT !.results.portrait = Defined(q.props)])

\* mutant: a failed landscape call leaves the old preview on the page
LandscapeDoneKeepsPreview(rp, l, lowest, highest, m, iw, ih) ==
  IF l.status = "hung" THEN Outcome(rp, NoError, TRUE)
  ELSE IF l.status = "threw" THEN Outcome(rp, l.error, FALSE)
  ELSE PortraitDone([rp EXCEPT !.results.landscape = Defined(l.props)],
                    optimizeStepAndRepeat(Request(lowest, highest, m, iw, ih),
                                          "js/app.js"))

\* lines 586-618, on the outcome l of the landscape call
LandscapeDone(rp, l, lowest, highest, m, iw, ih) ==
  IF l.status = "hung" THEN Outcome(rp, NoError, TRUE)
  ELSE IF l.status = "threw" THEN Outcome(ClearDocumentPreview(rp), l.error, FALSE)
  ELSE PortraitDone([rp EXCEPT !.results.landscape = Defined(l.props)],
                    optimizeStepAndRepeat(Request(lowest, highest, m, iw, ih),
                                          "js/app.js"))

\* lines 570-618
CommitNonSquare(rp, docWidth, docHeight, m, iw, ih) ==
  LandscapeDone([rp EXCEPT !.results.landscape = Defined(EmptyObject),
                           !.results.portrait = Defined(EmptyObject)],
                optimizeStepAndRepeat(Request(Highest(docWidth, docHeight),
                                              Lowest(docWidth, docHeight), m, iw, ih),
                                      "js/app.js"),
                Lowest(docWidth, docHeight), Highest(docWidth, docHeight), m, iw, ih)

\* line 544
IsDocumentSquare(docWidth, docHeight) == docWidth = docHeight

\* commitChanges() with the five control values read from the inputs
Commit(w, h, m, iw, ih) ==
  /\ ~hung
  /\ state' = [documentWidth |-> w, documentHeight |-> h, documentMargin |-> m,
               itemWidth |-> iw, itemHeight |-> ih]
  /\ \E o \in {IF IsDocumentSquare(w, h)
                 THEN CommitSquare([results |-> results, preview |-> preview],
                                   w, h, m, iw, ih)
                 ELSE CommitNonSquare([results |-> results, preview |-> preview],
                                      w, h, m, iw, ih)} :
       /\ results' = o.results
       /\ preview' = o.preview
       /\ alerted' = o.alerted
       /\ hung' = o.hung
  /\ UNCHANGED optVars

Init ==
  /\ props = EmptyObject
  /\ calls = <<>>
  /\ variant = "js/app.js"
  /\ CommitInit

Next ==
  \E w \in CDocValues, h \in CDocValues, m \in CMarginValues,
     iw \in CItemWidthValues, ih \in CItemHeightValues : Commit(w, h, m, iw, ih)

Spec == Init /\ [][Next]_vars

\* ------------------------------------------------- claims about the function
CallIds == 1..Len(calls)
Before(i, k) == Get(calls[i].before, k)
After(i, k) == Get(calls[i].after, k)
Returned(i) == calls[i].status = "returned"
Threw(i, kind) == calls[i].status = "threw" /\ calls[i].error.kind = kind

RequiredKeys == {"documentWidth", "documentHeight", "itemWidth", "itemHeight"}
MissingKeys(i) == {k \in RequiredKeys : Missing(Before(i, k))}
AllGiven(i) == MissingKeys(i) = {}

\* the margin the call works with: the default when none is given
Margin(i) ==
  IF Missing(Before(i, "documentMargin")) THEN DefaultMargin
  ELSE Abs(Before(i, "documentMargin").n)

\* C1: in every returned result with positive item sizes the column count and
\* the row count are sound and maximal, so an item that exactly fills the
\* usable dimension is counted on both axes.
C1_CountsSoundAndMaximal ==
  \A i \in CallIds :
    (Returned(i) /\ After(i, "itemWidth").n > 0 /\ After(i, "itemHeight").n > 0) =>
      LET w == After(i, "documentWidth").n
          h == After(i, "documentHeight").n
          iw == After(i, "itemWidth").n
          ih == After(i, "itemHeight").n
          c == After(i, "maxColumns").n
          r == After(i, "maxRows").n
      IN  /\ c * iw <= w /\ w < (c + 1) * iw
          /\ r * ih <= h /\ h < (r + 1) * ih

\* C2: a call whose documentWidth, documentHeight, itemWidth or itemHeight is
\* absent or null throws the null-property error naming one of the missing
\* fields; nothing is subtracted from the document sides and no count is
\* stored.
C2_MissingFieldThrows ==
  \A i \in CallIds :
    ~AllGiven(i) =>
      /\ Threw(i, "null")
      /\ calls[i].error.key \in MissingKeys(i)
      /\ After(i, "maxRows").k = "absent" /\ After(i, "maxColumns").k = "absent"
      /\ \A k \in {"documentWidth", "documentHeight"} :
            IF Missing(Before(i, k)) THEN After(i, k) = NullCell
            ELSE After(i, k).n \in {Before(i, k).n, Abs(Before(i, k).n)}

C2_Witness ==
  \E i \in CallIds :
    /\ Missing(Before(i, "itemHeight"))
    /\ Before(i, "documentWidth") = Num(-Grid)
    /\ Missing(Before(i, "documentMargin"))
    /\ Threw(i, "null") /\ calls[i].error.key = "itemHeight"

\* C3: the default margin is used when documentMargin is absent or null and
\* a given margin is kept (up to its sign); with a margin of 0 a returned
\* result has usable sides equal to the (normalised) sides given and no
\* margin error is raised.
C3_DefaultMarginOnlyWhenOmitted ==
  \A i \in CallIds :
    /\ Missing(Before(i, "documentMargin")) => After(i, "documentMargin") = Num(DefaultMargin)
    /\ ~Missing(Before(i, "documentMargin")) =>
          After(i, "documentMargin").n \in
            {Before(i, "documentMargin").n, Abs(Before(i, "documentMargin").n)}
    /\ Before(i, "documentMargin") = Num(0) =>
          /\ After(i, "documentMargin") = Num(0)
          /\ ~Threw(i, "margin")
          /\ AllGiven(i) =>
                /\ calls[i].status # "threw"
                /\ After(i, "documentWidth") = Num(Abs(Before(i, "documentWidth").n))
                /\ After(i, "documentHeight") = Num(Abs(Before(i, "documentHeight").n))

C3_Witness ==
  \E i \in CallIds :
    /\ Before(i, "documentMargin") = Num(0)
    /\ Before(i, "documentWidth") = Num(2 * Grid)
    /\ Before(i, "documentHeight") = Num(Grid)
    /\ Returned(i)
    /\ After(i, "documentWidth") = Num(2 * Grid) /\ After(i, "maxColumns").n > 0

\* C4: whenever twice the margin reaches the document width or height the
\* call throws the margin error, and no returned result has a usable width or
\* height that is 0 or less.
C4_MarginErrorOrPositiveArea ==
  \A i \in CallIds :
    AllGiven(i) =>
      /\ (\/ 2 * Margin(i) >= Abs(Before(i, "documentWidth").n)
          \/ 2 * Margin(i) >= Abs(Before(i, "documentHeight").n)) => Threw(i, "margin")
      /\ Returned(i) => (After(i, "documentWidth").n > 0 /\ After(i, "documentHeight").n > 0)

\* C5: a call with itemWidth = 0 or itemHeight = 0 terminates, and does so by
\* throwing an error (never by returning a result, never by looping on).
C5_ZeroItemFails ==
  \A i \in CallIds :
    (/\ AllGiven(i)
     /\ (Before(i, "itemWidth").n = 0 \/ Before(i, "itemHeight").n = 0)) =>
       calls[i].status = "threw"

\* C6 as stated: a returned result has documentWidthReal and
\* documentHeightReal equal to the sides passed in, and documentWidth and
\* documentHeight equal to those sides less twice the margin (unchanged for
\* margin 0).
C6_RealIsPassedValue ==
  \A i \in CallIds :
    Returned(i) =>
      /\ After(i, "documentWidthReal") = Before(i, "documentWidth")
      /\ After(i, "documentHeightReal") = Before(i, "documentHeight")
      /\ After(i, "documentWidth").n = Before(i, "documentWidth").n - 2 * Margin(i)
      /\ After(i, "documentHeight").n = Before(i, "documentHeight").n - 2 * Margin(i)

\* C6 amended: a returned result has documentWidthReal and documentHeightReal
\* equal to the absolute values of the sides passed in, and documentWidth and
\* documentHeight equal to those absolute values less twice the absolute
\* margin (12.7 when omitted).
C6_RealIsAbsOfPassedValue ==
  \A i \in CallIds :
    Returned(i) =>
      /\ After(i, "documentWidthReal") = Num(Abs(Before(i, "documentWidth").n))
      /\ After(i, "documentHeightReal") = Num(Abs(Before(i, "documentHeight").n))
      /\ After(i, "documentWidth").n = Abs(Before(i, "documentWidth").n) - 2 * Margin(i)
      /\ After(i, "documentHeight").n = Abs(Before(i, "documentHeight").n) - 2 * Margin(i)

C6_Witness ==
  \E i \in CallIds :
    /\ Returned(i)
    /\ Before(i, "documentWidth").n < 0
    /\ Before(i, "documentMargin").n < 0
    /\ After(i, "documentWidthReal").n = -Before(i, "documentWidth").n
    /\ After(i, "documentWidth").n < After(i, "documentWidthReal").n

\* C7: a call leaves the five request properties of the caller's object as
\* they were, and a second call on the same object gives the same outcome as
\* the first.
C7_NoMutationAndIdempotent ==
  /\ \A i \in CallIds : \A j \in 1..Len(RequestKeys) :
        After(i, RequestKeys[j]) = Before(i, RequestKeys[j])
  /\ Len(calls) >= 2 =>
        /\ calls[2].status = calls[1].status
        /\ calls[2].error = calls[1].error
        /\ calls[2].after = calls[1].after

\* --------------------------------------------------- claims about the commit
\* the latest commit ran to its end without an error: it rendered a preview
CommitSucceeded == ~hung /\ alerted = NoError /\ preview # <<>>
SquareCommit == state.documentWidth = state.documentHeight

\* results[t] holds a complete LayoutResult
Populated(t) ==
  /\ results[t].def
  /\ Get(results[t].obj, "maxRows").k = "num"
  /\ Get(results[t].obj, "maxColumns").k = "num"

PopulatedTags == {t \in {"square", "landscape", "portrait"} : Populated(t)}

\* C8: after a successful commit the populated entries of results are
\* exactly {square} when width = height and exactly {landscape, portrait}
\* otherwise, whatever commits came before.
C8_ExactlyTheTagsOfTheCommit ==
  CommitSucceeded =>
    PopulatedTags = IF SquareCommit THEN {"square"} ELSE {"landscape", "portrait"}

\* C9: after a successful non-square commit one candidate is rendered; it is
\* portrait exactly when portrait holds strictly more items than landscape,
\* so the rendered candidate holds at least as many items as the other and a
\* tie shows landscape.
C9_PreferredHasMostItems ==
  (CommitSucceeded /\ ~SquareCommit) =>
    LET pc == ItemCount(results.portrait.obj)
        lc == ItemCount(results.landscape.obj)
    IN  /\ Len(preview) = 1
        /\ preview[1].identifier \in {"landscape", "portrait"}
        /\ preview[1].identifier = "portrait" <=> pc > lc
        /\ preview[1].itemCount = IF pc > lc THEN pc ELSE lc
        /\ preview[1].itemCount >= pc /\ preview[1].itemCount >= lc

C9_Witness ==
  /\ CommitSucceeded /\ ~SquareCommit
  /\ ItemCount(results.portrait.obj) = ItemCount(results.landscape.obj)
  /\ ItemCount(results.landscape.obj) > 0
  /\ preview[1].identifier = "landscape"

\* C10: after a successful non-square commit the landscape result has
\* documentWidthReal = max(docWidth, docHeight) >= documentHeightReal =
\* min(docWidth, docHeight), the portrait result has the two swapped, and both
\* carry the margin and item sizes of the commit.
C10_LandscapeWidePortraitTall ==
  (CommitSucceeded /\ ~SquareCommit) =>
    LET hi == Highest(state.documentWidth, state.documentHeight)
        lo == Lowest(state.documentWidth, state.documentHeight)
        L  == results.landscape.obj
        P  == results.portrait.obj
    IN  /\ Get(L, "documentWidthReal") = Num(hi)
        /\ Get(L, "documentHeightReal") = Num(lo)
        /\ Get(L, "documentWidthReal").n >= Get(L, "documentHeightReal").n
        /\ Get(P, "documentWidthReal") = Num(lo)
        /\ Get(P, "documentHeightReal") = Num(hi)
        /\ \A o \in {L, P} :
              /\ Get(o, "documentMargin") = Num(state.documentMargin)
              /\ Get(o, "itemWidth") = Num(state.itemWidth)
              /\ Get(o, "itemHeight") = Num(state.itemHeight)

\* a commit has run since the page was set up
Committed == state # InitialState

\* the calls the latest commit makes, from the five values it read
SquareCall ==
  optimizeStepAndRepeat(Request(state.documentWidth, state.documentHeight,
                                state.documentMargin, state.itemWidth,
                                state.itemHeight), "js/app.js")
LandscapeCall ==
  optimizeStepAndRepeat(Request(Highest(state.documentWidth, state.documentHeight),
                                Lowest(state.documentWidth, state.documentHeight),
                                state.documentMargin, state.itemWidth,
                                state.itemHeight), "js/app.js")
PortraitCall ==
  optimizeStepAndRepeat(Request(Lowest(state.documentWidth, state.documentHeight),
                                Highest(state.documentWidth, state.documentHeight),
                                state.documentMargin, state.itemWidth,
                                state.itemHeight), "js/app.js")

\* results[t] was rendered: it points at its fieldset
Preferred(t) == results[t].def /\ Get(results[t].obj, "reference").k = "element"

\* C11: when the landscape or the portrait call of a non-square commit
\* throws, the commit reports that error, nothing is rendered (no fallback to
\* the other orientation) and neither candidate is marked as the rendered
\* one.
C11_FailureAbortsSelection ==
  (/\ Committed /\ ~hung /\ ~SquareCommit
   /\ (LandscapeCall.status = "threw" \/ PortraitCall.status = "threw")) =>
     /\ alerted = IF LandscapeCall.status = "threw" THEN LandscapeCall.error
                  ELSE PortraitCall.error
     /\ alerted # NoError
     /\ preview = <<>>
     /\ ~Preferred("landscape") /\ ~Preferred("portrait")

C11_Witness ==
  /\ Committed /\ ~hung /\ ~SquareCommit
  /\ LandscapeCall.status = "threw"
  /\ alerted.kind = "margin"
  /\ preview = <<>>
  /\ Preferred("square")

\* the call of the latest commit that would have computed results[t]
CallOf(t) ==
  IF t = "square" THEN SquareCall
  ELSE IF t = "landscape" THEN LandscapeCall ELSE PortraitCall

\* results[t] is what the latest commit computed for t from its five inputs
OfLatestCommit(t) ==
  /\ SquareCommit <=> (t = "square")
  /\ CallOf(t).status = "returned"
  /\ \A k \in AllKeys \ {"reference"} :
        Get(results[t].obj, k) = Get(CallOf(t).props, k)

\* C12: after any sequence of commits every LayoutResult held in results was
\* computed by the most recent commit from that commit's five inputs; no
\* result of an earlier commit remains.
C12_NothingPersists ==
  (Committed /\ ~hung) =>
    \A t \in PopulatedTags : OfLatestCommit(t)

\* C13 as stated: a commit that reports an error leaves the preview of the
\* last successful commit as it was.
C13_FailureKeepsPreview ==
  [][alerted' # NoError => preview' = preview]_vars

\* C13: a commit that reports an error removes whatever preview was
\* displayed; the panel is empty afterwards, and as the error stays in
\* effect until the next commit, it remains empty until a commit succeeds.
C13_FailureClearsPreview ==
  [][alerted' # NoError => preview' = <<>> /\ ~hung']_vars

C13_Witness ==
  /\ Committed /\ SquareCommit
  /\ SquareCall.status = "threw"
  /\ alerted = SquareCall.error
  /\ preview = <<>>
  /\ \E t \in {"square", "landscape", "portrait"} : Preferred(t)

\* the request with every number replaced by its absolute value
AbsRequest(obj) ==
  [obj EXCEPT !.cell = [k \in AllKeys |->
     IF obj.cell[k].k = "num" THEN Num(Abs(obj.cell[k].n)) ELSE obj.cell[k]]]

\* C14: every call has the outcome of the call on the request with absolute
\* values: the same error, or the same counts and usable dimensions, the
\* latter being the absolute sides minus twice the absolute margin.
C14_NegationIsAbsoluteValue ==
  \A i \in CallIds :
    \E a \in {optimizeStepAndRepeat(AbsRequest(calls[i].before), variant)} :
      /\ a.status = calls[i].status
      /\ a.error = calls[i].error
      /\ Returned(i) =>
           /\ \A k \in {"maxColumns", "maxRows", "documentWidth", "documentHeight"} :
                 Get(a.props, k) = After(i, k)
           /\ After(i, "documentWidth").n =
                 Abs(Before(i, "documentWidth").n)
                   - (IF Margin(i) # 0 THEN 2 * Margin(i) ELSE 0)

C14_Witness ==
  \E i \in CallIds :
    /\ Returned(i)
    /\ Before(i, "documentWidth").n < 0
    /\ Before(i, "documentHeight").n < 0
    /\ Before(i, "documentMargin").n < 0
    /\ Before(i, "itemWidth").n < 0
    /\ Before(i, "itemHeight").n < 0
    /\ After(i, "maxColumns").n > 0
    /\ After(i, "maxRows").n > 0

\* the request with the two axes exchanged
Swapped(obj) ==
  [obj EXCEPT !.cell = [k \in AllKeys |->
     CASE k = "documentWidth"  -> obj.cell["documentHeight"]
       [] k = "documentHeight" -> obj.cell["documentWidth"]
       [] k = "itemWidth"      -> obj.cell["itemHeight"]
       [] k = "itemHeight"     -> obj.cell["itemWidth"]
       [] OTHER                -> obj.cell[k]]]

\* C15: the two axes are treated alike: a call that returns has the column
\* count that the call on the exchanged request has as row count, and the
\* row count that it has as column count.
C15_AxesAreSymmetric ==
  \A i \in CallIds :
    (AllGiven(i) /\ Returned(i)) =>
      \E a \in {optimizeStepAndRepeat(Swapped(calls[i].before), variant)} :
        /\ a.status = "returned"
        /\ Get(a.props, "maxRows") = After(i, "maxColumns")
        /\ Get(a.props, "maxColumns") = After(i, "maxRows")

\* results[t] holds no LayoutResult: never assigned, or the empty object
Empty(t) == ~results[t].def \/ results[t].obj = EmptyObject

\* C16: the landscape and the portrait call of a non-square commit both
\* return or both fail, so results.landscape and results.portrait are both
\* complete LayoutResults or both empty, after any sequence of commits.
C16_BothOrNeither ==
  /\ (Committed /\ ~SquareCommit) =>
        (LandscapeCall.status = "returned" <=> PortraitCall.status = "returned")
  /\ \/ Populated("landscape") /\ Populated("portrait")
     \/ Empty("landscape") /\ Empty("portrait")

C16_Witness ==
  /\ Committed /\ ~SquareCommit
  /\ LandscapeCall.status = "returned" /\ PortraitCall.status = "returned"
  /\ Populated("landscape") /\ Populated("portrait")
  /\ ItemCount(results.portrait.obj) # ItemCount(results.landscape.obj)

====
